---------------------------- MODULE Spec2Model ----------------------------
(***************************************************************************)
(* LLM Inference Calculator (src/inference_calculator.py).                 *)
(*                                                                         *)
(* The engine is an object holding four tables (model_specs,               *)
(* hardware_specs, api_pricing, performance_baselines) and one public      *)
(* operation, calculate, which validates its five arguments and returns a  *)
(* CalculationResult or raises ValueError.                                 *)
(*                                                                         *)
(* Numbers.  The source computes with Python ints (unbounded) and floats.  *)
(* The model computes with exact signed rationals whose numerators and     *)
(* denominators are unbounded naturals (digit sequences), so that products *)
(* such as tokens * parameters * 2 (about 10^16) are exact.  Rounding of    *)
(* binary floating point is not modelled.                                  *)
(***************************************************************************)
EXTENDS Integers, Sequences, FiniteSets, TLC

(***************************************************************************)
(* Unbounded naturals: little-endian sequences of digits in base 10^4,     *)
(* without leading zero digits; <<>> is zero.                              *)
(***************************************************************************)
Base == 100 * 100

RECURSIVE Big(_)
Big(n) == IF n = 0 THEN <<>> ELSE <<n % Base>> \o Big(n \div Base)

RECURSIVE BigAddC(_, _, _)
BigAddC(a, b, c) ==
    IF a = <<>> /\ b = <<>> THEN (IF c = 0 THEN <<>> ELSE <<c>>)
    ELSE LET x == IF a = <<>> THEN 0 ELSE Head(a)
             y == IF b = <<>> THEN 0 ELSE Head(b)
             s == x + y + c
         IN  <<s % Base>> \o BigAddC(IF a = <<>> THEN a ELSE Tail(a),
                                     IF b = <<>> THEN b ELSE Tail(b),
                                     s \div Base)

BigAdd(a, b) == BigAddC(a, b, 0)

RECURSIVE BigStrip(_)
BigStrip(a) ==
    IF a = <<>> THEN a
    ELSE IF a[Len(a)] = 0 THEN BigStrip(SubSeq(a, 1, Len(a) - 1))
    ELSE a

\* a - b for a >= b, with borrow c.
RECURSIVE BigSubC(_, _, _)
BigSubC(a, b, c) ==
    IF a = <<>> THEN <<>>
    ELSE LET y == IF b = <<>> THEN 0 ELSE Head(b)
             s == Head(a) - y - c
         IN  <<IF s < 0 THEN s + Base ELSE s>>
             \o BigSubC(Tail(a), IF b = <<>> THEN b ELSE Tail(b),
                        IF s < 0 THEN 1 ELSE 0)

BigSub(a, b) == BigStrip(BigSubC(a, b, 0))

\* a * k + c for one digit k.
RECURSIVE BigMulDigit(_, _, _)
BigMulDigit(a, k, c) ==
    IF a = <<>> THEN (IF c = 0 THEN <<>> ELSE <<c>>)
    ELSE LET p == Head(a) * k + c
         IN  <<p % Base>> \o BigMulDigit(Tail(a), k, p \div Base)

RECURSIVE BigMul(_, _)
BigMul(a, b) ==
    IF a = <<>> \/ b = <<>> THEN <<>>
    ELSE IF b = <<1>> THEN a
    ELSE IF a = <<1>> THEN b
    ELSE LET hi == BigMul(a, Tail(b))
             lo == IF Head(b) = 0 THEN <<>> ELSE BigMulDigit(a, Head(b), 0)
         IN  BigAdd(lo, IF hi = <<>> THEN hi ELSE <<0>> \o hi)

\* -1, 0, 1 as a < b, a = b, a > b.
RECURSIVE BigCmpFrom(_, _, _)
BigCmpFrom(a, b, i) ==
    IF i = 0 THEN 0
    ELSE IF a[i] < b[i] THEN -1
    ELSE IF a[i] > b[i] THEN 1
    ELSE BigCmpFrom(a, b, i - 1)

BigCmp(a, b) ==
    IF Len(a) < Len(b) THEN -1
    ELSE IF Len(a) > Len(b) THEN 1
    ELSE BigCmpFrom(a, b, Len(a))

(***************************************************************************)
(* Signed rationals [neg, num, den]: the value is (-1)^neg * num / den,    *)
(* den > 0; zero has neg = FALSE.  Fractions are not reduced, so equality  *)
(* of values is Eq, not =.                                                 *)
(***************************************************************************)
RatOf(neg, num, den) == [neg |-> neg /\ num # <<>>, num |-> num, den |-> den]

\* The integer n.
I(n) == IF n < 0 THEN RatOf(TRUE, Big(-n), <<1>>) ELSE RatOf(FALSE, Big(n), <<1>>)

\* The decimal literal n / d (0.1 is Q(1, 10)).
Q(n, d) == RatOf(FALSE, Big(n), Big(d))

Zero == I(0)

Mul(x, y) == RatOf(x.neg # y.neg, BigMul(x.num, y.num), BigMul(x.den, y.den))

\* x / y for y # 0 (ZeroDivisionError otherwise; no divisor of the source is 0).
Div(x, y) == RatOf(x.neg # y.neg, BigMul(x.num, y.den), BigMul(x.den, y.num))

Neg(x) == RatOf(~x.neg, x.num, x.den)

Add(x, y) ==
    LET xn  == IF x.den = y.den THEN x.num ELSE BigMul(x.num, y.den)
        yn  == IF x.den = y.den THEN y.num ELSE BigMul(y.num, x.den)
        den == IF x.den = y.den THEN x.den ELSE BigMul(x.den, y.den)
    IN  IF x.neg = y.neg THEN RatOf(x.neg, BigAdd(xn, yn), den)
        ELSE IF BigCmp(xn, yn) >= 0 THEN RatOf(x.neg, BigSub(xn, yn), den)
        ELSE RatOf(y.neg, BigSub(yn, xn), den)

\* -1, 0, 1 as x < y, x = y, x > y.
Cmp(x, y) ==
    IF x.neg /\ ~y.neg THEN -1
    ELSE IF ~x.neg /\ y.neg THEN 1
    ELSE LET c == BigCmp(BigMul(x.num, y.den), BigMul(y.num, x.den))
         IN  IF x.neg THEN -c ELSE c

Eq(x, y) == Cmp(x, y) = 0
Lt(x, y) == Cmp(x, y) < 0
Leq(x, y) == Cmp(x, y) <= 0
Geq(x, y) == Cmp(x, y) >= 0
Gt(x, y) == Cmp(x, y) > 0

\* Left-to-right product of a non-empty sequence of rationals.
RECURSIVE Prod(_)
Prod(s) == IF Len(s) = 1 THEN s[1] ELSE Mul(Prod(SubSeq(s, 1, Len(s) - 1)), s[Len(s)])

RatMin(x, y) == IF Lt(y, x) THEN y ELSE x

(***************************************************************************)
(* The enumerations, each member named by its value string.                *)
(***************************************************************************)
ModelSize == {"7B", "13B", "GPT-4"}

HardwareType == {"CPU", "GPU_4GB", "GPU_8GB", "GPU_12GB", "GPU_16GB", "GPU_24GB", "GPU_32GB"}

DeploymentMode == {"local", "api"}

(***************************************************************************)
(* State: the engine's four tables, and the last call made on it with what *)
(* it returned or raised.                                                  *)
(***************************************************************************)
VARIABLES model_specs, hardware_specs, api_pricing, performance_baselines,
          op, args, ret,
          current_config, pc, choice, called,
          frames, heap

tables == <<model_specs, hardware_specs, api_pricing, performance_baselines>>

\* The interactive front end: its configuration, where it waits for input, the
\* menu choice of the main loop, and the method the loop ran for that choice.
cli == <<current_config, pc, choice, called>>

\* Threads calling calculate on the one engine: the frame of each thread's call and
\* the list objects the calls have created.
workers == <<frames, heap>>

vars == <<model_specs, hardware_specs, api_pricing, performance_baselines, op, args, ret,
          current_config, pc, choice, called, frames, heap>>

ModelSpecs(parameters, layers, heads, head_dim, context_length, vocabulary_size) ==
    [parameters |-> parameters, layers |-> I(layers), heads |-> I(heads),
     head_dim |-> I(head_dim), context_length |-> I(context_length),
     vocabulary_size |-> I(vocabulary_size)]

HardwareSpecs(vram_gb, memory_bandwidth_gbps, compute_flops, power_watts, cost_usd) ==
    [vram_gb |-> I(vram_gb), memory_bandwidth_gbps |-> I(memory_bandwidth_gbps),
     compute_flops |-> compute_flops, power_watts |-> I(power_watts),
     cost_usd |-> I(cost_usd)]

Million == I(1000000)

\* n * 10^9.
Giga(n) == Mul(I(n), I(1000000000))

InitModelSpecs ==
    [m \in ModelSize |->
        CASE m = "7B"    -> ModelSpecs(Mul(I(7300), Million), 32, 32, 128, 8192, 32000)
          [] m = "13B"   -> ModelSpecs(Mul(I(13000), Million), 40, 40, 128, 4096, 32000)
          [] m = "GPT-4" -> ModelSpecs(Mul(I(1760000), Million), 96, 96, 128, 8192, 100000)]

InitHardwareSpecs ==
    [h \in HardwareType |->
        CASE h = "CPU"      -> HardwareSpecs(0, 50, Giga(100), 65, 200)
          [] h = "GPU_4GB"  -> HardwareSpecs(4, 112, Giga(2000), 75, 150)
          [] h = "GPU_8GB"  -> HardwareSpecs(8, 448, Giga(20000), 220, 500)
          [] h = "GPU_12GB" -> HardwareSpecs(12, 504, Giga(30000), 320, 700)
          [] h = "GPU_16GB" -> HardwareSpecs(16, 760, Giga(40000), 320, 1200)
          [] h = "GPU_24GB" -> HardwareSpecs(24, 1008, Giga(83000), 450, 1600)
          [] h = "GPU_32GB" -> HardwareSpecs(32, 1008, Giga(83000), 450, 1600)]

\* Mutation of InitApiPricing: model 7B, which has no API offering, has no row.
InitApiPricing_No7B ==
    [m \in {"13B", "GPT-4"} |->
        CASE m = "13B"   -> [input |-> Q(2, 10000), output |-> Q(4, 10000)]
          [] m = "GPT-4" -> [input |-> Q(1, 100), output |-> Q(3, 100)]]

InitApiPricing ==
    [m \in ModelSize |->
        CASE m = "7B"    -> [input |-> Zero, output |-> Zero]
          [] m = "13B"   -> [input |-> Q(2, 10000), output |-> Q(4, 10000)]
          [] m = "GPT-4" -> [input |-> Q(1, 100), output |-> Q(3, 100)]]

InitPerformanceBaselines ==
    [m \in ModelSize |-> [h \in HardwareType |->
        CASE m = "7B" ->
               (CASE h = "CPU" -> I(3) [] h = "GPU_4GB" -> I(8) [] h = "GPU_8GB" -> I(15)
                  [] h = "GPU_12GB" -> I(25) [] h = "GPU_16GB" -> I(35)
                  [] h = "GPU_24GB" -> I(45) [] h = "GPU_32GB" -> I(50))
          [] m = "13B" ->
               (CASE h = "CPU" -> I(1) [] h = "GPU_4GB" -> I(3) [] h = "GPU_8GB" -> I(6)
                  [] h = "GPU_12GB" -> I(10) [] h = "GPU_16GB" -> I(15)
                  [] h = "GPU_24GB" -> I(25) [] h = "GPU_32GB" -> I(30))
          [] m = "GPT-4" -> Q(1, 10)]]

(***************************************************************************)
(* The formulas.                                                           *)
(***************************************************************************)
\* 1024**3
GiB == I(1024 * 1024 * 1024)

\* Mutation of calculate_memory_usage: the activations are 10% of the weights,
\* whatever the token count.
calculate_memory_usage_ActivationOfWeights(model_size, tokens, batch_size, hardware_type) ==
    LET specs == model_specs[model_size]
        model_memory_gb == Div(Mul(specs.parameters, I(2)), GiB)
        kv_cache_bytes ==
            Prod(<<I(2), specs.layers, specs.heads, specs.head_dim,
                   RatMin(I(tokens), specs.context_length), I(batch_size), I(2)>>)
        kv_cache_gb == Div(kv_cache_bytes, GiB)
        activation_memory_gb == Mul(model_memory_gb, Q(1, 10))
        total_memory == Add(Add(model_memory_gb, kv_cache_gb), activation_memory_gb)
    IN  Mul(total_memory, Q(12, 10))

\* Mutation of calculate_memory_usage: the KV cache leaves the batch size out.
calculate_memory_usage_NoBatch(model_size, tokens, batch_size, hardware_type) ==
    LET specs == model_specs[model_size]
        model_memory_gb == Div(Mul(specs.parameters, I(2)), GiB)
        kv_cache_bytes ==
            Prod(<<I(2), specs.layers, specs.heads, specs.head_dim,
                   RatMin(I(tokens), specs.context_length), I(2)>>)
        kv_cache_gb == Div(kv_cache_bytes, GiB)
        activation_memory_gb ==
            Mul(Div(Prod(<<I(tokens), specs.parameters, I(2)>>), GiB), Q(1, 10))
        total_memory == Add(Add(model_memory_gb, kv_cache_gb), activation_memory_gb)
    IN  Mul(total_memory, Q(12, 10))

\* Mutation of calculate_memory_usage: the activations are clamped to the context
\* window as the KV cache is.
calculate_memory_usage_ClampActivation(model_size, tokens, batch_size, hardware_type) ==
    LET specs == model_specs[model_size]
        model_memory_gb == Div(Mul(specs.parameters, I(2)), GiB)
        kv_cache_bytes ==
            Prod(<<I(2), specs.layers, specs.heads, specs.head_dim,
                   RatMin(I(tokens), specs.context_length), I(batch_size), I(2)>>)
        kv_cache_gb == Div(kv_cache_bytes, GiB)
        activation_memory_gb ==
            Mul(Div(Prod(<<RatMin(I(tokens), specs.context_length), specs.parameters, I(2)>>),
                    GiB), Q(1, 10))
        total_memory == Add(Add(model_memory_gb, kv_cache_gb), activation_memory_gb)
    IN  Mul(total_memory, Q(12, 10))

calculate_memory_usage(model_size, tokens, batch_size, hardware_type) ==
    LET specs == model_specs[model_size]
        model_memory_gb == Div(Mul(specs.parameters, I(2)), GiB)
        kv_cache_bytes ==
            Prod(<<I(2), specs.layers, specs.heads, specs.head_dim,
                   RatMin(I(tokens), specs.context_length), I(batch_size), I(2)>>)
        kv_cache_gb == Div(kv_cache_bytes, GiB)
        activation_memory_gb ==
            Mul(Div(Prod(<<I(tokens), specs.parameters, I(2)>>), GiB), Q(1, 10))
        total_memory == Add(Add(model_memory_gb, kv_cache_gb), activation_memory_gb)
    IN  Mul(total_memory, Q(12, 10))

\* Mutation of calculate_latency: the local throughput scales with the batch size.
calculate_latency_PerBatch(model_size, tokens, batch_size, hardware_type, deployment_mode) ==
    IF deployment_mode = "api"
    THEN LET base_latency == I(2)
             processing_time == Div(I(tokens), I(50))
         IN  Add(base_latency, processing_time)
    ELSE LET tokens_per_sec == performance_baselines[model_size][hardware_type]
             compute_time == Div(I(tokens), Mul(tokens_per_sec, I(batch_size)))
             memory_overhead == Q(1, 10)
         IN  Mul(compute_time, Add(I(1), memory_overhead))

\* Mutation of calculate_latency: the API latency has no base round trip.
calculate_latency_ApiNoBase(model_size, tokens, batch_size, hardware_type, deployment_mode) ==
    IF deployment_mode = "api"
    THEN LET base_latency == I(0)
             processing_time == Div(I(tokens), I(50))
         IN  Add(base_latency, processing_time)
    ELSE LET tokens_per_sec == performance_baselines[model_size][hardware_type]
             compute_time == Div(I(tokens), tokens_per_sec)
             memory_overhead == Q(1, 10)
         IN  Mul(compute_time, Add(I(1), memory_overhead))

\* Mutation of calculate_latency: the local latency has no memory overhead.
calculate_latency_NoOverhead(model_size, tokens, batch_size, hardware_type, deployment_mode) ==
    IF deployment_mode = "api"
    THEN LET base_latency == I(2)
             processing_time == Div(I(tokens), I(50))
         IN  Add(base_latency, processing_time)
    ELSE LET tokens_per_sec == performance_baselines[model_size][hardware_type]
             compute_time == Div(I(tokens), tokens_per_sec)
         IN  compute_time

calculate_latency(model_size, tokens, batch_size, hardware_type, deployment_mode) ==
    IF deployment_mode = "api"
    THEN LET base_latency == I(2)
             processing_time == Div(I(tokens), I(50))
         IN  Add(base_latency, processing_time)
    ELSE LET tokens_per_sec == performance_baselines[model_size][hardware_type]
             compute_time == Div(I(tokens), tokens_per_sec)
             memory_overhead == Q(1, 10)
         IN  Mul(compute_time, Add(I(1), memory_overhead))

\* Mutation of calculate_cost: the API cost subtracts the output cost.
calculate_cost_Minus(model_size, tokens, batch_size, hardware_type, deployment_mode) ==
    IF deployment_mode = "api"
    THEN LET pricing == api_pricing[model_size]
             input_tokens == Mul(I(tokens), Q(7, 10))
             output_tokens == Mul(I(tokens), Q(3, 10))
             input_cost == Mul(Div(input_tokens, I(1000)), pricing.input)
             output_cost == Mul(Div(output_tokens, I(1000)), pricing.output)
         IN  Add(input_cost, Neg(output_cost))
    ELSE LET hardware == hardware_specs[hardware_type]
             latency == calculate_latency(model_size, tokens, batch_size,
                                          hardware_type, deployment_mode)
             hardware_cost_per_hour == Div(hardware.cost_usd, I(3 * 365 * 8))
             electricity_cost_per_hour ==
                 Mul(Div(hardware.power_watts, I(1000)), Q(12, 100))
             total_cost_per_hour ==
                 Add(hardware_cost_per_hour, electricity_cost_per_hour)
         IN  Mul(Div(total_cost_per_hour, I(3600)), latency)

\* Mutation of calculate_cost: the API tokens are split evenly between input and
\* output.
calculate_cost_EvenSplit(model_size, tokens, batch_size, hardware_type, deployment_mode) ==
    IF deployment_mode = "api"
    THEN LET pricing == api_pricing[model_size]
             input_tokens == Mul(I(tokens), Q(5, 10))
             output_tokens == Mul(I(tokens), Q(5, 10))
             input_cost == Mul(Div(input_tokens, I(1000)), pricing.input)
             output_cost == Mul(Div(output_tokens, I(1000)), pricing.output)
         IN  Add(input_cost, output_cost)
    ELSE LET hardware == hardware_specs[hardware_type]
             latency == calculate_latency(model_size, tokens, batch_size,
                                          hardware_type, deployment_mode)
             hardware_cost_per_hour == Div(hardware.cost_usd, I(3 * 365 * 8))
             electricity_cost_per_hour ==
                 Mul(Div(hardware.power_watts, I(1000)), Q(12, 100))
             total_cost_per_hour ==
                 Add(hardware_cost_per_hour, electricity_cost_per_hour)
         IN  Mul(Div(total_cost_per_hour, I(3600)), latency)

\* Mutation of calculate_cost: the hardware is amortised over 24 hours a day.
calculate_cost_FullDay(model_size, tokens, batch_size, hardware_type, deployment_mode) ==
    IF deployment_mode = "api"
    THEN LET pricing == api_pricing[model_size]
             input_tokens == Mul(I(tokens), Q(7, 10))
             output_tokens == Mul(I(tokens), Q(3, 10))
             input_cost == Mul(Div(input_tokens, I(1000)), pricing.input)
             output_cost == Mul(Div(output_tokens, I(1000)), pricing.output)
         IN  Add(input_cost, output_cost)
    ELSE LET hardware == hardware_specs[hardware_type]
             latency == calculate_latency(model_size, tokens, batch_size,
                                          hardware_type, deployment_mode)
             hardware_cost_per_hour == Div(hardware.cost_usd, I(3 * 365 * 24))
             electricity_cost_per_hour ==
                 Mul(Div(hardware.power_watts, I(1000)), Q(12, 100))
             total_cost_per_hour ==
                 Add(hardware_cost_per_hour, electricity_cost_per_hour)
         IN  Mul(Div(total_cost_per_hour, I(3600)), latency)

calculate_cost(model_size, tokens, batch_size, hardware_type, deployment_mode) ==
    IF deployment_mode = "api"
    THEN LET pricing == api_pricing[model_size]
             input_tokens == Mul(I(tokens), Q(7, 10))
             output_tokens == Mul(I(tokens), Q(3, 10))
             input_cost == Mul(Div(input_tokens, I(1000)), pricing.input)
             output_cost == Mul(Div(output_tokens, I(1000)), pricing.output)
         IN  Add(input_cost, output_cost)
    ELSE LET hardware == hardware_specs[hardware_type]
             latency == calculate_latency(model_size, tokens, batch_size,
                                          hardware_type, deployment_mode)
             hardware_cost_per_hour == Div(hardware.cost_usd, I(3 * 365 * 8))
             electricity_cost_per_hour ==
                 Mul(Div(hardware.power_watts, I(1000)), Q(12, 100))
             total_cost_per_hour ==
                 Add(hardware_cost_per_hour, electricity_cost_per_hour)
         IN  Mul(Div(total_cost_per_hour, I(3600)), latency)

\* Mutation of check_hardware_compatibility: the comparison is turned round.
check_hardware_compatibility_Reversed(model_size, hardware_type) ==
    IF hardware_type = "CPU" THEN TRUE
    ELSE LET required_memory == calculate_memory_usage(model_size, 2048, 1, hardware_type)
             available_memory == hardware_specs[hardware_type].vram_gb
         IN  Leq(available_memory, required_memory)

\* Mutation of check_hardware_compatibility: no special case for the CPU.
check_hardware_compatibility_NoCpuCase(model_size, hardware_type) ==
    LET required_memory == calculate_memory_usage(model_size, 2048, 1, hardware_type)
        available_memory == hardware_specs[hardware_type].vram_gb
    IN  Geq(available_memory, required_memory)

\* Mutation of check_hardware_compatibility: the class let through without a
\* comparison is GPU_4GB.
check_hardware_compatibility_Gpu4Exempt(model_size, hardware_type) ==
    IF hardware_type = "GPU_4GB" THEN TRUE
    ELSE LET required_memory == calculate_memory_usage(model_size, 2048, 1, hardware_type)
             available_memory == hardware_specs[hardware_type].vram_gb
         IN  Geq(available_memory, required_memory)

check_hardware_compatibility(model_size, hardware_type) ==
    IF hardware_type = "CPU" THEN TRUE
    ELSE LET required_memory == calculate_memory_usage(model_size, 2048, 1, hardware_type)
             available_memory == hardware_specs[hardware_type].vram_gb
         IN  Geq(available_memory, required_memory)

\* recommendations.append(s) when cond holds.
AppendIf(recommendations, cond, s) ==
    IF cond THEN Append(recommendations, s) ELSE recommendations

\* Mutation of generate_recommendations: the incompatibility rule is outside the
\* local branch.
generate_recommendations_Rule1AnyMode(model_size, tokens, batch_size, hardware_type, deployment_mode) ==
    LET r0 == <<>>
        r1 == AppendIf(r0, ~check_hardware_compatibility(model_size, hardware_type),
                       "Hardware incompatible - consider GPU with more VRAM")
        r2 == AppendIf(r1, deployment_mode = "local"
                           /\ hardware_type = "CPU" /\ model_size # "7B",
                       "CPU inference will be very slow for this model size")
        r3 == AppendIf(r2, deployment_mode = "local" /\ tokens > 2048,
                       "Long sequences may cause memory issues")
        r4 == AppendIf(r3, deployment_mode # "local" /\ deployment_mode = "api"
                           /\ model_size = "GPT-4" /\ tokens > 1000,
                       "GPT-4 costs can be high for long sequences")
        r5 == AppendIf(r4, deployment_mode # "local" /\ deployment_mode = "api"
                           /\ batch_size > 1,
                       "API deployment typically doesn't support batching")
        r6 == AppendIf(r5, batch_size > 4, "Large batch sizes may cause memory issues")
        r7 == AppendIf(r6, tokens > 4096, "Consider chunking long sequences")
    IN  r7

\* Mutation of generate_recommendations: the chunking rule fires from 4096 tokens on.
generate_recommendations_ChunkAt4096(model_size, tokens, batch_size, hardware_type, deployment_mode) ==
    LET r0 == <<>>
        r1 == AppendIf(r0, deployment_mode = "local"
                           /\ ~check_hardware_compatibility(model_size, hardware_type),
                       "Hardware incompatible - consider GPU with more VRAM")
        r2 == AppendIf(r1, deployment_mode = "local"
                           /\ hardware_type = "CPU" /\ model_size # "7B",
                       "CPU inference will be very slow for this model size")
        r3 == AppendIf(r2, deployment_mode = "local" /\ tokens > 2048,
                       "Long sequences may cause memory issues")
        r4 == AppendIf(r3, deployment_mode # "local" /\ deployment_mode = "api"
                           /\ model_size = "GPT-4" /\ tokens > 1000,
                       "GPT-4 costs can be high for long sequences")
        r5 == AppendIf(r4, deployment_mode # "local" /\ deployment_mode = "api"
                           /\ batch_size > 1,
                       "API deployment typically doesn't support batching")
        r6 == AppendIf(r5, batch_size > 4, "Large batch sizes may cause memory issues")
        r7 == AppendIf(r6, tokens >= 4096, "Consider chunking long sequences")
    IN  r7

generate_recommendations(model_size, tokens, batch_size, hardware_type, deployment_mode) ==
    LET r0 == <<>>
        r1 == AppendIf(r0, deployment_mode = "local"
                           /\ ~check_hardware_compatibility(model_size, hardware_type),
                       "Hardware incompatible - consider GPU with more VRAM")
        r2 == AppendIf(r1, deployment_mode = "local"
                           /\ hardware_type = "CPU" /\ model_size # "7B",
                       "CPU inference will be very slow for this model size")
        r3 == AppendIf(r2, deployment_mode = "local" /\ tokens > 2048,
                       "Long sequences may cause memory issues")
        r4 == AppendIf(r3, deployment_mode # "local" /\ deployment_mode = "api"
                           /\ model_size = "GPT-4" /\ tokens > 1000,
                       "GPT-4 costs can be high for long sequences")
        r5 == AppendIf(r4, deployment_mode # "local" /\ deployment_mode = "api"
                           /\ batch_size > 1,
                       "API deployment typically doesn't support batching")
        r6 == AppendIf(r5, batch_size > 4, "Large batch sizes may cause memory issues")
        r7 == AppendIf(r6, tokens > 4096, "Consider chunking long sequences")
    IN  r7

(***************************************************************************)
(* calculate: what a call returns or raises.  A raised exception is        *)
(* [kind |-> its class, message |-> the parts of its message]; the enum    *)
(* conversions raise "'<value>' is not a valid <Enum>", which the except   *)
(* clause wraps after "Invalid input parameter: ".  NoError stands for the *)
(* validation falling through.                                             *)
(***************************************************************************)
ValueError(message) == [kind |-> "ValueError", message |-> message]

KeyError(message) == [kind |-> "KeyError", message |-> message]

ZeroDivisionError(message) == [kind |-> "ZeroDivisionError", message |-> message]

NoError == [kind |-> "NoError"]

\* Enum(value) for a value that is no member: "'<value>' is not a valid <Enum>".
EnumError(value, enum_name) == <<"'", value, "' is not a valid ", enum_name>>

CalculationResult(latency_seconds, memory_usage_gb, cost_per_request_usd, hardware_compatible, recommendations) ==
    [kind |-> "CalculationResult",
     latency_seconds |-> latency_seconds,
     memory_usage_gb |-> memory_usage_gb,
     cost_per_request_usd |-> cost_per_request_usd,
     hardware_compatible |-> hardware_compatible,
     recommendations |-> recommendations]

\* The try block: the three conversions in order, the first failure wrapped.
calculate_convert(model_size, hardware_type, deployment_mode) ==
    IF model_size \notin ModelSize
    THEN ValueError(<<"Invalid input parameter: ">> \o EnumError(model_size, "ModelSize"))
    ELSE IF hardware_type \notin HardwareType
    THEN ValueError(<<"Invalid input parameter: ">>
                    \o EnumError(hardware_type, "HardwareType"))
    ELSE IF deployment_mode \notin DeploymentMode
    THEN ValueError(<<"Invalid input parameter: ">>
                    \o EnumError(deployment_mode, "DeploymentMode"))
    ELSE NoError

\* Mutation of calculate_validate: batch size 0 is let through.
calculate_validate_BatchZero(tokens, batch_size) ==
    IF tokens <= 0 THEN ValueError(<<"Tokens must be positive">>)
    ELSE IF batch_size < 0 THEN ValueError(<<"Batch size must be positive">>)
    ELSE NoError

\* Mutation of calculate_validate: the batch size check raises the tokens message.
calculate_validate_WrongMessage(tokens, batch_size) ==
    IF tokens <= 0 THEN ValueError(<<"Tokens must be positive">>)
    ELSE IF batch_size <= 0 THEN ValueError(<<"Tokens must be positive">>)
    ELSE NoError

\* The numeric checks.
calculate_validate(tokens, batch_size) ==
    IF tokens <= 0 THEN ValueError(<<"Tokens must be positive">>)
    ELSE IF batch_size <= 0 THEN ValueError(<<"Batch size must be positive">>)
    ELSE NoError

\* A table lookup of the five calculations misses its key.
LookupFails(model_size, hardware_type, deployment_mode) ==
    \/ model_size \notin DOMAIN model_specs
    \/ /\ deployment_mode = "local"
       /\ \/ hardware_type \notin DOMAIN hardware_specs
          \/ model_size \notin DOMAIN performance_baselines
          \/ hardware_type \notin DOMAIN performance_baselines[model_size]
    \/ deployment_mode = "api" /\ model_size \notin DOMAIN api_pricing
    \/ hardware_type # "CPU" /\ hardware_type \notin DOMAIN hardware_specs

\* Mutation of calculate_perform: the flag compares the VRAM with the memory usage
\* of the request itself instead of calling check_hardware_compatibility.
calculate_perform_OwnFootprint(model_size, tokens, batch_size, hardware_type, deployment_mode) ==
    IF LookupFails(model_size, hardware_type, deployment_mode)
    THEN KeyError(<<model_size, hardware_type>>)
    ELSE IF deployment_mode = "local"
            /\ Eq(performance_baselines[model_size][hardware_type], Zero)
    THEN ZeroDivisionError(<<"division by zero">>)
    ELSE LET memory_usage ==
                 calculate_memory_usage(model_size, tokens, batch_size, hardware_type)
             latency ==
                 calculate_latency(model_size, tokens, batch_size, hardware_type,
                                   deployment_mode)
             cost ==
                 calculate_cost(model_size, tokens, batch_size, hardware_type,
                                deployment_mode)
             hardware_compatible ==
                 \/ hardware_type = "CPU"
                 \/ Geq(hardware_specs[hardware_type].vram_gb, memory_usage)
             recommendations ==
                 generate_recommendations(model_size, tokens, batch_size, hardware_type,
                                          deployment_mode)
         IN  CalculationResult(latency, memory_usage, cost, hardware_compatible,
                               recommendations)

\* The calculations on validated input and the result built from them.  The only
\* divisor that is not a literal is tokens_per_sec, in the local latency.
calculate_perform(model_size, tokens, batch_size, hardware_type, deployment_mode) ==
    IF LookupFails(model_size, hardware_type, deployment_mode)
    THEN KeyError(<<model_size, hardware_type>>)
    ELSE IF deployment_mode = "local"
            /\ Eq(performance_baselines[model_size][hardware_type], Zero)
    THEN ZeroDivisionError(<<"division by zero">>)
    ELSE LET memory_usage ==
                 calculate_memory_usage(model_size, tokens, batch_size, hardware_type)
             latency ==
                 calculate_latency(model_size, tokens, batch_size, hardware_type,
                                   deployment_mode)
             cost ==
                 calculate_cost(model_size, tokens, batch_size, hardware_type,
                                deployment_mode)
             hardware_compatible ==
                 check_hardware_compatibility(model_size, hardware_type)
             recommendations ==
                 generate_recommendations(model_size, tokens, batch_size, hardware_type,
                                          deployment_mode)
         IN  CalculationResult(latency, memory_usage, cost, hardware_compatible,
                               recommendations)

\* Mutation of calculate: the numeric checks run before the conversions.
calculate_NumericFirst(model_size, tokens, batch_size, hardware_type, deployment_mode) ==
    LET converted == calculate_convert(model_size, hardware_type, deployment_mode)
        validated == calculate_validate(tokens, batch_size)
    IN  IF validated # NoError THEN validated
        ELSE IF converted # NoError THEN converted
        ELSE calculate_perform(model_size, tokens, batch_size, hardware_type,
                               deployment_mode)

calculate(model_size, tokens, batch_size, hardware_type, deployment_mode) ==
    LET converted == calculate_convert(model_size, hardware_type, deployment_mode)
        validated == calculate_validate(tokens, batch_size)
    IN  IF converted # NoError THEN converted
        ELSE IF validated # NoError THEN validated
        ELSE calculate_perform(model_size, tokens, batch_size, hardware_type,
                               deployment_mode)

(***************************************************************************)
(* The calls explored.  Strings: every member of each enumeration and one  *)
(* non-member.  Tokens: -1, 0, 1, the scenario values of the tests, and    *)
(* the thresholds of the rules (1000, 2048, 4096) and of the context       *)
(* lengths (4096, 8192), each with its neighbours.  Batch sizes: -1 up to  *)
(* MaxBatch, across the thresholds 1 and 4.                                *)
(***************************************************************************)
TokenSlack == 1

MaxBatch == 5

ModelStrings == ModelSize \cup {"70B"}

HardwareStrings == HardwareType \cup {"TPU"}

DeploymentStrings == DeploymentMode \cup {"cloud"}

TokenThresholds == {1000, 2048, 4096, 8192}

ScenarioTokens == {500, 2000, 5000}

TokenValues ==
    (-1 .. 1) \cup ScenarioTokens
    \cup {t + k : t \in TokenThresholds, k \in (-TokenSlack) .. TokenSlack}

BatchValues == -1 .. MaxBatch

Call(model_size, tokens, batch_size, hardware_type, deployment_mode) ==
    [model_size |-> model_size, tokens |-> tokens, batch_size |-> batch_size,
     hardware_type |-> hardware_type, deployment_mode |-> deployment_mode]

NoCall == Call("", 0, 0, "", "")

None == [kind |-> "None"]

\* A dictionary value of the front end: NotSet is None, Value(v) is v.
NotSet == <<>>

Value(v) == <<v>>

\* InteractiveCLI.__init__: no field of the configuration is set.
InitCurrentConfig ==
    [model_size |-> NotSet, tokens |-> NotSet, batch_size |-> NotSet,
     hardware_type |-> NotSet, deployment_mode |-> NotSet]

Threads == {"t1", "t2"}

\* The frame of a thread that is not in calculate.
IdleFrame ==
    [pc |-> "idle", call |-> NoCall, locals |-> <<>>, trace |-> <<>>, reads |-> {},
     result |-> None]

\* LLMInferenceCalculator() and InteractiveCLI(): the state after construction;
\* no call made yet, the main menu shown.
Init ==
    /\ model_specs = InitModelSpecs
    /\ hardware_specs = InitHardwareSpecs
    /\ api_pricing = InitApiPricing
    /\ performance_baselines = InitPerformanceBaselines
    /\ op = "idle"
    /\ args = NoCall
    /\ ret = None
    /\ current_config = InitCurrentConfig
    /\ pc = <<"run">>
    /\ choice = 0
    /\ called = "none"
    /\ frames = [t \in Threads |-> IdleFrame]
    /\ heap = <<>>

\* Mutation of Calculate: the call zeroes the input price of the model it looked up.
Calculate_ZeroesPrice(model_size, tokens, batch_size, hardware_type, deployment_mode) ==
    /\ op = "idle"
    /\ op' = "calculate"
    /\ args' = Call(model_size, tokens, batch_size, hardware_type, deployment_mode)
    /\ ret' = calculate(model_size, tokens, batch_size, hardware_type, deployment_mode)
    /\ api_pricing' = [m \in DOMAIN api_pricing |->
                          IF m = model_size THEN [api_pricing[m] EXCEPT !.input = Zero]
                          ELSE api_pricing[m]]
    /\ UNCHANGED <<model_specs, hardware_specs, performance_baselines>>
    /\ UNCHANGED <<cli, workers>>

\* calculator.calculate(model_size, tokens, batch_size, hardware_type, deployment_mode):
\* the call runs to its return or its raise.
Calculate(model_size, tokens, batch_size, hardware_type, deployment_mode) ==
    /\ op = "idle"
    /\ op' = "calculate"
    /\ args' = Call(model_size, tokens, batch_size, hardware_type, deployment_mode)
    /\ ret' = calculate(model_size, tokens, batch_size, hardware_type, deployment_mode)
    /\ UNCHANGED tables
    /\ UNCHANGED <<cli, workers>>

\* The caller has printed the result or the error and drops it; the engine is
\* ready for the next call.
Done ==
    /\ op # "idle"
    /\ op' = "idle"
    /\ args' = NoCall
    /\ ret' = None
    /\ UNCHANGED tables
    /\ UNCHANGED <<cli, workers>>

Next ==
    \/ \E model_size \in ModelStrings, tokens \in TokenValues, batch_size \in BatchValues,
          hardware_type \in HardwareStrings, deployment_mode \in DeploymentStrings :
           Calculate(model_size, tokens, batch_size, hardware_type, deployment_mode)
    \/ Done

Spec == Init /\ [][Next]_vars

(***************************************************************************)
(* Calls that leave optional arguments out.  kwargs is the record of the   *)
(* optional arguments the caller passes; the signature binds the others to *)
(* their defaults.                                                         *)
(***************************************************************************)
batch_size_default == 1

hardware_type_default == "GPU_8GB"

deployment_mode_default == "local"

\* The value a parameter is bound to: the caller's, else the default.
Param(kwargs, name, default) == IF name \in DOMAIN kwargs THEN kwargs[name] ELSE default

\* Mutation of calculate_bound: the hardware left out is bound to GPU_16GB.
calculate_bound_Gpu16(model_size, tokens, kwargs) ==
    calculate(model_size, tokens,
              Param(kwargs, "batch_size", batch_size_default),
              Param(kwargs, "hardware_type", "GPU_16GB"),
              Param(kwargs, "deployment_mode", deployment_mode_default))

\* calculate(model_size, tokens, **kwargs) after the binding of its parameters.
calculate_bound(model_size, tokens, kwargs) ==
    calculate(model_size, tokens,
              Param(kwargs, "batch_size", batch_size_default),
              Param(kwargs, "hardware_type", hardware_type_default),
              Param(kwargs, "deployment_mode", deployment_mode_default))

OptionalNames == {"batch_size", "hardware_type", "deployment_mode"}

KwBatchValues == {0, 1, 2}

KwHardwareStrings == {"GPU_8GB", "GPU_16GB", "TPU"}

KwDeploymentStrings == {"local", "api"}

\* Every choice of optional arguments passed, each with every value explored.
KwargsValues ==
    UNION {{[n \in S |-> CASE n = "batch_size" -> b
                           [] n = "hardware_type" -> h
                           [] n = "deployment_mode" -> d] :
                b \in KwBatchValues, h \in KwHardwareStrings, d \in KwDeploymentStrings} :
           S \in SUBSET OptionalNames}

\* calculator.calculate(model_size, tokens, **kwargs): the call runs to its
\* return or its raise.
CalculateKw(model_size, tokens, kwargs) ==
    /\ op = "idle"
    /\ op' = "calculate_kw"
    /\ args' = [model_size |-> model_size, tokens |-> tokens, kwargs |-> kwargs]
    /\ ret' = calculate_bound(model_size, tokens, kwargs)
    /\ UNCHANGED tables
    /\ UNCHANGED <<cli, workers>>

NextKw ==
    \/ \E model_size \in ModelStrings, tokens \in TokenValues, kwargs \in KwargsValues :
           CalculateKw(model_size, tokens, kwargs)
    \/ Done

SpecKw == Init /\ [][NextKw]_vars

(***************************************************************************)
(* The interactive front end.  A line of input is a sequence of            *)
(* characters.  pc is the stack of methods down to the one waiting in      *)
(* input(); each action takes one line and runs to the next input().       *)
(***************************************************************************)
Digits == <<"0", "1", "2", "3", "4", "5", "6", "7", "8", "9">>

IsDigit(c) == \E i \in 1 .. Len(Digits) : Digits[i] = c

DigitValue(c) == (CHOOSE i \in 1 .. Len(Digits) : Digits[i] = c) - 1

\* str.strip(): the blanks at both ends removed.
RECURSIVE strip(_)
strip(line) ==
    IF line # <<>> /\ Head(line) = " " THEN strip(Tail(line))
    ELSE IF line # <<>> /\ line[Len(line)] = " " THEN strip(SubSeq(line, 1, Len(line) - 1))
    ELSE line

\* str.lower().
lower(line) ==
    [i \in 1 .. Len(line) |-> CASE line[i] = "Y" -> "y" [] line[i] = "N" -> "n"
                                [] OTHER -> line[i]]

RECURSIVE DigitsValue(_)
DigitsValue(ds) ==
    IF ds = <<>> THEN 0
    ELSE 10 * DigitsValue(SubSeq(ds, 1, Len(ds) - 1)) + DigitValue(ds[Len(ds)])

\* int(text): an optional sign and then digits; anything else is a ValueError
\* (ok = FALSE).
int(text) ==
    LET signed == text # <<>> /\ Head(text) \in {"-", "+"}
        ds == IF signed THEN Tail(text) ELSE text
    IN  IF ds = <<>> \/ \E i \in 1 .. Len(ds) : ~IsDigit(ds[i])
        THEN [ok |-> FALSE, value |-> 0]
        ELSE [ok |-> TRUE,
              value |-> IF signed /\ Head(text) = "-" THEN 0 - DigitsValue(ds)
                        ELSE DigitsValue(ds)]

\* What one pass of an input loop does with a line: it returns a value, or it
\* prints a complaint and asks again.
Returns(value) == [returned |-> TRUE, value |-> value]

AsksAgain == [returned |-> FALSE, value |-> 0]

\* Mutation of get_user_choice: the range is not checked.
get_user_choice_NoRange(line, min_choice, max_choice) ==
    LET choice_int == int(strip(line))
    IN  IF ~choice_int.ok THEN AsksAgain
        ELSE Returns(choice_int.value)

get_user_choice(line, min_choice, max_choice) ==
    LET choice_int == int(strip(line))
    IN  IF ~choice_int.ok THEN AsksAgain
        ELSE IF min_choice <= choice_int.value /\ choice_int.value <= max_choice
        THEN Returns(choice_int.value)
        ELSE AsksAgain

model_map == <<"7B", "13B", "GPT-4">>

hardware_map == <<"CPU", "GPU_4GB", "GPU_8GB", "GPU_12GB", "GPU_16GB", "GPU_24GB", "GPU_32GB">>

deployment_map == <<"local", "api">>

\* Mutation of get_tokens: zero is accepted.
get_tokens_AllowsZero(line) ==
    LET tokens_int == int(strip(line))
    IN  IF ~tokens_int.ok THEN AsksAgain
        ELSE IF tokens_int.value >= 0 THEN Returns(tokens_int.value)
        ELSE AsksAgain

get_tokens(line) ==
    LET tokens_int == int(strip(line))
    IN  IF ~tokens_int.ok THEN AsksAgain
        ELSE IF tokens_int.value > 0 THEN Returns(tokens_int.value)
        ELSE AsksAgain

get_batch_size(line) ==
    LET batch == strip(line)
        batch_int == int(batch)
    IN  IF batch = <<>> THEN Returns(1)
        ELSE IF ~batch_int.ok THEN AsksAgain
        ELSE IF batch_int.value > 0 THEN Returns(batch_int.value)
        ELSE AsksAgain

\* Mutation of api_hardware_type: the default hardware is stored.
api_hardware_type_Default == Value("GPU_8GB")

\* What configure_settings stores as hardware when the deployment is not local.
api_hardware_type == NotSet

\* all(self.current_config.values()): None and 0 are false; an enumeration member
\* and a non-zero number are true.
all_values(config) ==
    /\ config.model_size # NotSet
    /\ config.tokens # NotSet /\ config.tokens[1] # 0
    /\ config.batch_size # NotSet /\ config.batch_size[1] # 0
    /\ config.hardware_type # NotSet
    /\ config.deployment_mode # NotSet

AttributeError == [kind |-> "AttributeError"]

TypeError == [kind |-> "TypeError"]

\* perform_calculation: the call it makes on the engine and what the call returns
\* or raises (caught and printed).  .value of a field that is None raises
\* AttributeError before the call; None for tokens or batch size raises TypeError
\* in the comparison with 0.
perform_calculation(config) ==
    IF config.model_size = NotSet \/ config.deployment_mode = NotSet
    THEN [call |-> NoCall, result |-> AttributeError]
    ELSE IF config.tokens = NotSet \/ config.batch_size = NotSet
    THEN [call |-> NoCall, result |-> TypeError]
    ELSE LET hardware_type ==
                 IF config.hardware_type # NotSet THEN config.hardware_type[1]
                 ELSE "GPU_8GB"
         IN  [call |-> Call(config.model_size[1], config.tokens[1], config.batch_size[1],
                            hardware_type, config.deployment_mode[1]),
              result |-> calculate(config.model_size[1], config.tokens[1],
                                   config.batch_size[1], hardware_type,
                                   config.deployment_mode[1])]

\* The lines typed at each prompt.
ChoiceLines ==
    {<<c>> : c \in {"0", "1", "2", "3", "4", "5", "6", "7", "8", "x"}}
    \cup {<<>>, <<" ", "6", " ">>, <<"-", "1">>, <<"1", "0">>}

TokenLines ==
    {<<>>, <<"0">>, <<"-", "5">>, <<"x">>, <<"1">>, <<"1", "0", "0", "0">>,
     <<" ", "5", "0", "0", "0">>}

BatchLines == {<<>>, <<"0">>, <<"-", "1">>, <<"x">>, <<"2">>, <<"5">>}

AnswerLines == {<<"y">>, <<"Y">>, <<" ", "y">>, <<"n">>, <<>>, <<"y", "e", "s">>}

Top == pc[Len(pc)]

\* The frames below the input loop on top, with the next prompt on top of them.
Prompt(method) == SubSeq(pc, 1, Len(pc) - 1) \o <<method>>

ConfigurePrompt(caller) == caller \o <<"configure_settings", "get_model_size">>

\* The method the main loop ran returns: "Press Enter to continue...".
PressEnterPrompt == <<"run", "input">>

\* quick_calculation has its configuration and goes on to perform_calculation.
PerformPoint == <<"run", "quick_calculation", "perform_calculation">>

\* configure_settings returns with configuration config; called from
\* quick_calculation, perform_calculation follows.
ConfigureReturns(config) ==
    /\ current_config' = config
    /\ pc' = IF "quick_calculation" \in {pc[i] : i \in 1 .. Len(pc)}
             THEN PerformPoint ELSE PressEnterPrompt
    /\ UNCHANGED <<args, ret>>

\* run: a line at the main menu.  Options 3, 4 and 5 print and return; the three
\* calls compare_scenarios makes on the engine have fixed valid arguments and
\* their results are printed only.
MenuChoice(line) ==
    /\ pc = <<"run">>
    /\ LET c == get_user_choice(line, 1, 6)
       IN  IF ~c.returned THEN UNCHANGED <<cli, args, ret>>
           ELSE /\ choice' = c.value
                /\ UNCHANGED <<current_config, args, ret>>
                /\ CASE c.value = 1 ->
                          /\ called' = "quick_calculation"
                          /\ pc' = IF all_values(current_config)
                                   THEN <<"run", "quick_calculation", "input">>
                                   ELSE ConfigurePrompt(<<"run", "quick_calculation">>)
                     [] c.value = 2 ->
                          /\ called' = "configure_settings"
                          /\ pc' = ConfigurePrompt(<<"run">>)
                     [] c.value = 3 -> called' = "compare_scenarios" /\ pc' = PressEnterPrompt
                     [] c.value = 4 -> called' = "show_recommendations" /\ pc' = PressEnterPrompt
                     [] c.value = 5 -> called' = "show_help" /\ pc' = PressEnterPrompt
                     [] c.value = 6 -> called' = "none" /\ pc' = <<"returned">>
                     [] OTHER -> called' = "none" /\ pc' = PressEnterPrompt
    /\ UNCHANGED <<workers, tables, op>>

\* quick_calculation: the answer to "Use saved configuration? (y/n)".
UseSavedAnswer(line) ==
    /\ pc = <<"run", "quick_calculation", "input">>
    /\ IF lower(strip(line)) # <<"y">>
       THEN /\ pc' = ConfigurePrompt(<<"run", "quick_calculation">>)
            /\ UNCHANGED <<current_config, args, ret>>
       ELSE /\ pc' = PerformPoint
            /\ UNCHANGED <<current_config, args, ret>>
    /\ UNCHANGED <<workers, tables, op, choice, called>>

\* quick_calculation: perform_calculation calls the engine with the configuration
\* and prints the result or the error; quick_calculation returns.
PerformCalculation ==
    /\ pc = PerformPoint
    /\ \E performed \in {perform_calculation(current_config)} :
           args' = performed.call /\ ret' = performed.result
    /\ pc' = PressEnterPrompt
    /\ UNCHANGED <<workers, tables, op, current_config, choice, called>>

\* configure_settings: a line at "Select model".
ModelSizeInput(line) ==
    /\ Top = "get_model_size"
    /\ LET c == get_user_choice(line, 1, 3)
       IN  IF ~c.returned THEN UNCHANGED <<current_config, pc>>
           ELSE /\ current_config' = [current_config EXCEPT
                                          !.model_size = Value(model_map[c.value])]
                /\ pc' = Prompt("get_tokens")
    /\ UNCHANGED <<workers, tables, op, args, ret, choice, called>>

\* configure_settings: a line at "Enter token count".
TokensInput(line) ==
    /\ Top = "get_tokens"
    /\ LET t == get_tokens(line)
       IN  IF ~t.returned THEN UNCHANGED <<current_config, pc>>
           ELSE /\ current_config' = [current_config EXCEPT !.tokens = Value(t.value)]
                /\ pc' = Prompt("get_batch_size")
    /\ UNCHANGED <<workers, tables, op, args, ret, choice, called>>

\* configure_settings: a line at "Enter batch size (default: 1)".
BatchSizeInput(line) ==
    /\ Top = "get_batch_size"
    /\ LET b == get_batch_size(line)
       IN  IF ~b.returned THEN UNCHANGED <<current_config, pc>>
           ELSE /\ current_config' = [current_config EXCEPT !.batch_size = Value(b.value)]
                /\ pc' = Prompt("get_deployment_mode")
    /\ UNCHANGED <<workers, tables, op, args, ret, choice, called>>

\* configure_settings: a line at "Select deployment mode"; for a mode other than
\* local the hardware is cleared and configure_settings returns.
DeploymentModeInput(line) ==
    /\ Top = "get_deployment_mode"
    /\ LET c == get_user_choice(line, 1, 2)
       IN  IF ~c.returned THEN UNCHANGED <<current_config, pc, args, ret>>
           ELSE IF deployment_map[c.value] = "local"
           THEN /\ current_config' = [current_config EXCEPT
                                          !.deployment_mode = Value(deployment_map[c.value])]
                /\ pc' = Prompt("get_hardware_type")
                /\ UNCHANGED <<args, ret>>
           ELSE ConfigureReturns([current_config EXCEPT
                                      !.deployment_mode = Value(deployment_map[c.value]),
                                      !.hardware_type = api_hardware_type])
    /\ UNCHANGED <<workers, tables, op, choice, called>>

\* configure_settings: a line at "Select hardware"; configure_settings returns.
HardwareTypeInput(line) ==
    /\ Top = "get_hardware_type"
    /\ LET c == get_user_choice(line, 1, 7)
       IN  IF ~c.returned THEN UNCHANGED <<current_config, pc, args, ret>>
           ELSE ConfigureReturns([current_config EXCEPT
                                      !.hardware_type = Value(hardware_map[c.value])])
    /\ UNCHANGED <<workers, tables, op, choice, called>>

\* run: any line at "Press Enter to continue..."; the menu is shown again.
PressEnter ==
    /\ pc = PressEnterPrompt
    /\ pc' = <<"run">>
    /\ called' = "none"
    /\ args' = NoCall
    /\ ret' = None
    /\ UNCHANGED <<workers, tables, op, current_config, choice>>

\* input() raises KeyboardInterrupt or EOFError instead of returning a line: no
\* method of the front end catches it, it leaves run and main prints its message.
Interrupt ==
    /\ pc[1] = "run" /\ pc # PerformPoint
    /\ pc' = <<"interrupted">>
    /\ UNCHANGED <<workers, tables, op, args, ret, current_config, choice, called>>

NextCli ==
    \/ \E line \in ChoiceLines : MenuChoice(line)
    \/ \E line \in AnswerLines : UseSavedAnswer(line)
    \/ \E line \in ChoiceLines : ModelSizeInput(line)
    \/ \E line \in TokenLines : TokensInput(line)
    \/ \E line \in BatchLines : BatchSizeInput(line)
    \/ \E line \in ChoiceLines : DeploymentModeInput(line)
    \/ \E line \in ChoiceLines : HardwareTypeInput(line)
    \/ PerformCalculation
    \/ PressEnter
    \/ Interrupt

SpecCli == Init /\ [][NextCli]_vars

(***************************************************************************)
(* Concurrent calls.  Each thread runs calculate statement by statement on *)
(* the shared engine; a step is one statement of calculate, and the steps  *)
(* of the threads interleave.  A frame holds the position of the call, its *)
(* arguments, the locals assigned so far, the statements run (trace), the  *)
(* tables they have read, and what the call returned or raised.  heap maps *)
(* the identity of each live list object to its contents.                  *)
(***************************************************************************)
ThreadCalls ==
    {Call("7B", 1000, 1, "GPU_16GB", "local"), Call("13B", 5000, 5, "CPU", "local"),
     Call("GPT-4", 2000, 2, "GPU_8GB", "api"), Call("70B", 1000, 1, "GPU_8GB", "local"),
     Call("7B", 0, 1, "GPU_8GB", "api"), Call("13B", 1000, 0, "CPU", "local")}

\* Mutation of StepAfter: the latency is calculated before the memory usage.
StepAfter_LatencyFirst(step) ==
    CASE step = "validate" -> "calculate_latency"
      [] step = "calculate_latency" -> "calculate_memory_usage"
      [] step = "calculate_memory_usage" -> "calculate_cost"
      [] step = "calculate_cost" -> "check_hardware_compatibility"
      [] step = "check_hardware_compatibility" -> "generate_recommendations"
      [] step = "generate_recommendations" -> "return"

\* The statement of calculate that follows each statement.
StepAfter(step) ==
    CASE step = "validate" -> "calculate_memory_usage"
      [] step = "calculate_memory_usage" -> "calculate_latency"
      [] step = "calculate_latency" -> "calculate_cost"
      [] step = "calculate_cost" -> "check_hardware_compatibility"
      [] step = "check_hardware_compatibility" -> "generate_recommendations"
      [] step = "generate_recommendations" -> "return"

\* Mutation of new_list: the list is one object kept across calls.
new_list_Shared(h) == 1

\* recommendations = []: the identity of a new list object.
new_list(h) == CHOOSE i \in 1 .. (Cardinality(DOMAIN h) + 1) : i \notin DOMAIN h

\* The frame after an assignment statement: local name is bound to value, the
\* tables in read have been looked up.
Assigned(frame, name, value, read) ==
    [frame EXCEPT !.pc = StepAfter(frame.pc), !.trace = Append(@, frame.pc),
                  !.locals = (name :> value) @@ @, !.reads = @ \cup read]

\* A thread calls calculator.calculate(...).
ThreadCall(t, call) ==
    /\ frames[t].pc = "idle"
    /\ frames' = [frames EXCEPT ![t] = [IdleFrame EXCEPT !.pc = "validate", !.call = call]]
    /\ UNCHANGED <<heap, tables, op, args, ret, cli>>

\* The conversions and the numeric checks: the first failure is raised.
ThreadValidate(t) ==
    /\ frames[t].pc = "validate"
    /\ \E converted \in {calculate_convert(frames[t].call.model_size,
                                         frames[t].call.hardware_type,
                                         frames[t].call.deployment_mode)},
          validated \in {calculate_validate(frames[t].call.tokens,
                                            frames[t].call.batch_size)} :
           frames' = [frames EXCEPT ![t] =
               IF converted # NoError
               THEN [@ EXCEPT !.pc = "raised", !.trace = Append(@, "validate"),
                              !.result = converted]
               ELSE IF validated # NoError
               THEN [@ EXCEPT !.pc = "raised", !.trace = Append(@, "validate"),
                              !.result = validated]
               ELSE [@ EXCEPT !.pc = StepAfter("validate"),
                              !.trace = Append(@, "validate")]]
    /\ UNCHANGED <<heap, tables, op, args, ret, cli>>

\* memory_usage = self.calculate_memory_usage(...)
ThreadMemory(t) ==
    /\ frames[t].pc = "calculate_memory_usage"
    /\ frames' = [frames EXCEPT ![t] =
           Assigned(@, "memory_usage",
                    calculate_memory_usage(@.call.model_size, @.call.tokens,
                                           @.call.batch_size, @.call.hardware_type),
                    {"model_specs"})]
    /\ UNCHANGED <<heap, tables, op, args, ret, cli>>

\* latency = self.calculate_latency(...)
ThreadLatency(t) ==
    /\ frames[t].pc = "calculate_latency"
    /\ frames' = [frames EXCEPT ![t] =
           Assigned(@, "latency",
                    calculate_latency(@.call.model_size, @.call.tokens, @.call.batch_size,
                                      @.call.hardware_type, @.call.deployment_mode),
                    IF @.call.deployment_mode = "api" THEN {}
                    ELSE {"performance_baselines"})]
    /\ UNCHANGED <<heap, tables, op, args, ret, cli>>

\* cost = self.calculate_cost(...)
ThreadCost(t) ==
    /\ frames[t].pc = "calculate_cost"
    /\ frames' = [frames EXCEPT ![t] =
           Assigned(@, "cost",
                    calculate_cost(@.call.model_size, @.call.tokens, @.call.batch_size,
                                   @.call.hardware_type, @.call.deployment_mode),
                    IF @.call.deployment_mode = "api" THEN {"api_pricing"}
                    ELSE {"hardware_specs", "performance_baselines"})]
    /\ UNCHANGED <<heap, tables, op, args, ret, cli>>

\* The tables check_hardware_compatibility looks up.
CompatibilityReads(hardware_type) ==
    IF hardware_type = "CPU" THEN {} ELSE {"model_specs", "hardware_specs"}

\* hardware_compatible = self.check_hardware_compatibility(...)
ThreadCompatibility(t) ==
    /\ frames[t].pc = "check_hardware_compatibility"
    /\ frames' = [frames EXCEPT ![t] =
           Assigned(@, "hardware_compatible",
                    check_hardware_compatibility(@.call.model_size, @.call.hardware_type),
                    CompatibilityReads(@.call.hardware_type))]
    /\ UNCHANGED <<heap, tables, op, args, ret, cli>>

\* recommendations = self.generate_recommendations(...): the strings are appended
\* to the list object the method creates, and the local refers to that object.
ThreadRecommendations(t) ==
    /\ frames[t].pc = "generate_recommendations"
    /\ \E ref \in {new_list(heap)} :
           /\ heap' = [i \in DOMAIN heap \cup {ref} |->
                          IF i # ref THEN heap[i]
                          ELSE (IF ref \in DOMAIN heap THEN heap[ref] ELSE <<>>)
                               \o generate_recommendations(
                                      frames[t].call.model_size, frames[t].call.tokens,
                                      frames[t].call.batch_size,
                                      frames[t].call.hardware_type,
                                      frames[t].call.deployment_mode)]
           /\ frames' = [frames EXCEPT ![t] =
                  Assigned(@, "recommendations", ref,
                           IF @.call.deployment_mode = "local"
                           THEN CompatibilityReads(@.call.hardware_type) ELSE {})]
    /\ UNCHANGED <<tables, op, args, ret, cli>>

\* return CalculationResult(...): the result holds the locals.
ThreadReturn(t) ==
    /\ frames[t].pc = "return"
    /\ frames' = [frames EXCEPT ![t] =
           [@ EXCEPT !.pc = "returned", !.trace = Append(@, "return"),
                     !.result = CalculationResult(frames[t].locals.latency,
                                                  frames[t].locals.memory_usage,
                                                  frames[t].locals.cost,
                                                  frames[t].locals.hardware_compatible,
                                                  frames[t].locals.recommendations)]]
    /\ UNCHANGED <<heap, tables, op, args, ret, cli>>

\* The list objects some frame other than that of thread t refers to.
ReferredByOthers(t) ==
    {frames[u].locals.recommendations :
        u \in {u \in Threads \ {t} : "recommendations" \in DOMAIN frames[u].locals}}

\* The caller drops what the call returned or raised; a list no frame refers to
\* any more is collected.
ThreadFinish(t) ==
    /\ frames[t].pc \in {"returned", "raised"}
    /\ frames' = [frames EXCEPT ![t] = IdleFrame]
    /\ heap' = IF frames[t].pc = "returned"
                  /\ frames[t].locals.recommendations \notin ReferredByOthers(t)
               THEN [i \in DOMAIN heap \ {frames[t].locals.recommendations} |-> heap[i]]
               ELSE heap
    /\ UNCHANGED <<tables, op, args, ret, cli>>

NextThreads ==
    \E t \in Threads :
        \/ \E call \in ThreadCalls : ThreadCall(t, call)
        \/ ThreadValidate(t)
        \/ ThreadMemory(t)
        \/ ThreadLatency(t)
        \/ ThreadCost(t)
        \/ ThreadCompatibility(t)
        \/ ThreadRecommendations(t)
        \/ ThreadReturn(t)
        \/ ThreadFinish(t)

SpecThreads == Init /\ [][NextThreads]_vars

(***************************************************************************)
(* Properties.  The vocabulary of the contract, written out independently  *)
(* of the enumerations above.                                              *)
(***************************************************************************)
ModelNames == {"7B", "13B", "GPT-4"}

HardwareNames == {"CPU", "GPU_4GB", "GPU_8GB", "GPU_12GB", "GPU_16GB", "GPU_24GB", "GPU_32GB"}

DeploymentNames == {"local", "api"}

\* The arguments of call a that the contract calls invalid.
InvalidArguments(a) ==
    {n \in {"model_size", "hardware_type", "deployment_mode", "tokens", "batch_size"} :
        \/ n = "model_size" /\ a.model_size \notin ModelNames
        \/ n = "hardware_type" /\ a.hardware_type \notin HardwareNames
        \/ n = "deployment_mode" /\ a.deployment_mode \notin DeploymentNames
        \/ n = "tokens" /\ a.tokens <= 0
        \/ n = "batch_size" /\ a.batch_size <= 0}

Returned == op = "calculate" /\ ret.kind = "CalculationResult"

Raised == op = "calculate" /\ ret.kind # "CalculationResult"

\* C1: a call to calculate with exactly one invalid argument (an unknown model,
\* hardware or deployment string, tokens <= 0, or batch size <= 0), all the
\* others valid, raises ValueError, whichever the invalid argument is.
C1_EachInvalidArgumentRaises ==
    op = "calculate" =>
        \A n \in {"model_size", "hardware_type", "deployment_mode", "tokens", "batch_size"} :
            InvalidArguments(args) = {n} => ret.kind = "ValueError"

\* C1 witness: a call whose only invalid argument is batch size 0 has raised.
C1_Witness ==
    /\ op = "calculate"
    /\ InvalidArguments(args) = {"batch_size"}
    /\ args.batch_size = 0
    /\ ret.kind = "ValueError"

\* What an error message says: the argument it names, why, and the offending
\* value it quotes (for an enumeration).  An unreadable message names nothing.
Identified(message) ==
    IF Len(message) = 5 /\ message[1] = "Invalid input parameter: "
       /\ message[4] = "' is not a valid "
    THEN [argument |-> CASE message[5] = "ModelSize" -> "model_size"
                         [] message[5] = "HardwareType" -> "hardware_type"
                         [] message[5] = "DeploymentMode" -> "deployment_mode"
                         [] OTHER -> "nothing",
          why |-> "unknown enumeration value", value |-> message[3]]
    ELSE IF message = <<"Tokens must be positive">>
    THEN [argument |-> "tokens", why |-> "non-positive number", value |-> ""]
    ELSE IF message = <<"Batch size must be positive">>
    THEN [argument |-> "batch_size", why |-> "non-positive number", value |-> ""]
    ELSE [argument |-> "nothing", why |-> "", value |-> ""]

\* C2: every ValueError raised by calculate names an argument that is invalid in
\* the call, with the reason that applies to it: an unknown enumeration value
\* (quoted in the message) for model, hardware and deployment, a non-positive
\* number for tokens and batch size.
C2_ErrorIdentifiesInvalidArgument ==
    (op = "calculate" /\ ret.kind = "ValueError") =>
        LET id == Identified(ret.message)
        IN  /\ id.argument \in InvalidArguments(args)
            /\ id.argument \in {"model_size", "hardware_type", "deployment_mode"}
                   => /\ id.why = "unknown enumeration value"
                      /\ id.value = args[id.argument]
            /\ id.argument \in {"tokens", "batch_size"}
                   => id.why = "non-positive number"

\* C2 witness: tokens and batch size are both non-positive and the error names
\* tokens.
C2_Witness ==
    /\ op = "calculate"
    /\ InvalidArguments(args) = {"tokens", "batch_size"}
    /\ ret.kind = "ValueError"
    /\ Identified(ret.message).argument = "tokens"

C4_ResultSigns ==
    Returned =>
        /\ Gt(ret.latency_seconds, Zero)
        /\ Geq(ret.memory_usage_gb, Zero)
        /\ Geq(ret.cost_per_request_usd, Zero)

\* C4 witness: a result whose cost is exactly zero (7B in API mode) and a latency
\* above zero.
C4_Witness ==
    /\ Returned
    /\ Eq(ret.cost_per_request_usd, Zero)
    /\ Gt(ret.latency_seconds, Zero)
    /\ Gt(ret.memory_usage_gb, Zero)

\* x is an element of sequence s.
Contains(s, x) == \E i \in 1 .. Len(s) : s[i] = x

Incompatible == "Hardware incompatible - consider GPU with more VRAM"

\* The memory usage of the fixed probe of the compatibility check.
ProbeMemory(model_size, hardware_type) ==
    calculate_memory_usage(model_size, 2048, 1, hardware_type)

\* C5: the result for model 7B in local mode with 1000 tokens and batch size 1
\* has hardware_compatible = TRUE on GPU_16GB, GPU_24GB and GPU_32GB.
C5_SevenBCompatibleFrom16GB ==
    (/\ Returned
     /\ args.model_size = "7B" /\ args.deployment_mode = "local"
     /\ args.tokens = 1000 /\ args.batch_size = 1
     /\ args.hardware_type \in {"GPU_16GB", "GPU_24GB", "GPU_32GB"})
        => ret.hardware_compatible = TRUE

\* C6: the result for model 7B in local mode with 1000 tokens and batch size 1
\* on GPU_4GB or GPU_8GB has hardware_compatible = FALSE and its recommendations
\* contain "Hardware incompatible - consider GPU with more VRAM".
C6_SevenBIncompatibleUpTo8GB ==
    (/\ Returned
     /\ args.model_size = "7B" /\ args.deployment_mode = "local"
     /\ args.tokens = 1000 /\ args.batch_size = 1
     /\ args.hardware_type \in {"GPU_4GB", "GPU_8GB"})
        => /\ ret.hardware_compatible = FALSE
           /\ Contains(ret.recommendations, Incompatible)

\* C6 witness: that call on GPU_4GB has returned, flagged incompatible.
C6_Witness ==
    /\ Returned
    /\ args = Call("7B", 1000, 1, "GPU_4GB", "local")
    /\ ~ret.hardware_compatible
    /\ Contains(ret.recommendations, Incompatible)

\* C7 as stated: the flag of every result is whether the VRAM of the hardware is
\* >= the memory usage computed for 2048 tokens and batch size 1.
C7_FlagIsVramAgainstProbe ==
    Returned =>
        ret.hardware_compatible
            = Geq(hardware_specs[args.hardware_type].vram_gb,
                  ProbeMemory(args.model_size, args.hardware_type))

\* C7 amended: the flag of a result is a function of the model and the hardware
\* alone, the same for every positive tokens and batch size: TRUE for the CPU,
\* and for a GPU class whether its VRAM is >= the memory usage computed for 2048
\* tokens and batch size 1.
C7_FlagIndependentOfRequest ==
    Returned =>
        ret.hardware_compatible
            = (\/ args.hardware_type = "CPU"
               \/ Geq(hardware_specs[args.hardware_type].vram_gb,
                      ProbeMemory(args.model_size, args.hardware_type)))

\* C7 witness: a request of one token in a batch of 4 whose own memory usage
\* fits the 24 GB of the GPU, flagged incompatible all the same.
C7_Witness ==
    /\ Returned
    /\ args.model_size = "7B" /\ args.hardware_type = "GPU_24GB"
    /\ args.tokens = 1 /\ args.batch_size = 4
    /\ Leq(ret.memory_usage_gb, hardware_specs["GPU_24GB"].vram_gb)
    /\ ~ret.hardware_compatible

\* C8: check_hardware_compatibility(model, CPU) is TRUE for the three models,
\* and every result of a call with hardware "CPU" has hardware_compatible = TRUE.
C8_CpuAlwaysCompatible ==
    /\ \A m \in ModelNames : check_hardware_compatibility(m, "CPU")
    /\ (Returned /\ args.hardware_type = "CPU") => ret.hardware_compatible = TRUE

\* C8 witness: GPT-4 on the CPU, whose VRAM of 0 is below the probe's memory
\* usage, has returned compatible.
C8_Witness ==
    /\ Returned
    /\ args.model_size = "GPT-4" /\ args.hardware_type = "CPU"
    /\ Lt(hardware_specs["CPU"].vram_gb, ProbeMemory("GPT-4", "CPU"))
    /\ ret.hardware_compatible

\* Two results equal in every field.
SameResult(r1, r2) ==
    /\ r1.kind = "CalculationResult" /\ r2.kind = "CalculationResult"
    /\ Eq(r1.latency_seconds, r2.latency_seconds)
    /\ Eq(r1.memory_usage_gb, r2.memory_usage_gb)
    /\ Eq(r1.cost_per_request_usd, r2.cost_per_request_usd)
    /\ r1.hardware_compatible = r2.hardware_compatible
    /\ r1.recommendations = r2.recommendations

\* C9: in API mode the result is the same, field by field, for every other
\* valid hardware string with the same model, tokens and batch size.
C9_ApiResultIgnoresHardware ==
    (Returned /\ args.deployment_mode = "api") =>
        \A h \in HardwareNames :
            SameResult(ret, calculate(args.model_size, args.tokens, args.batch_size,
                                      h, "api"))

\* The KV-cache term of the memory formula, in GB, for batch size 1.
KvCacheGbPerRequest(model_size, tokens) ==
    LET specs == model_specs[model_size]
    IN  Div(Prod(<<I(2), specs.layers, specs.heads, specs.head_dim,
                   RatMin(I(tokens), specs.context_length), I(2)>>), GiB)

\* C10 as stated: the memory usage of a result is that of every positive batch
\* size with the same model, tokens and hardware.
C10_MemoryIgnoresBatch ==
    Returned =>
        \A b \in 1 .. MaxBatch :
            Eq(ret.memory_usage_gb,
               calculate_memory_usage(args.model_size, args.tokens, b, args.hardware_type))

\* C10 amended: batch size enters the memory formula through the KV-cache term
\* alone, which is proportional to it: for fixed model, tokens and hardware the
\* memory usage at batch size b is that at batch size 1 plus
\* 1.2 * (b - 1) * (KV cache of one request), so it grows strictly with b.
C10_MemoryLinearInBatch ==
    Returned =>
        LET one == calculate_memory_usage(args.model_size, args.tokens, 1,
                                          args.hardware_type)
            kv == KvCacheGbPerRequest(args.model_size, args.tokens)
        IN  /\ Eq(ret.memory_usage_gb,
                  Add(one, Prod(<<Q(12, 10), I(args.batch_size - 1), kv>>)))
            /\ args.batch_size > 1 => Gt(ret.memory_usage_gb, one)

\* C10 witness: a result for batch size 2 whose memory usage is above that of
\* batch size 1.
C10_Witness ==
    /\ Returned
    /\ args.batch_size = 2
    /\ Gt(ret.memory_usage_gb,
          calculate_memory_usage(args.model_size, args.tokens, 1, args.hardware_type))

\* C11: the latency and the cost of a result are those of every positive batch
\* size with the same model, tokens, hardware and deployment mode.
C11_LatencyAndCostIgnoreBatch ==
    Returned =>
        \A b \in 1 .. MaxBatch :
            /\ Eq(ret.latency_seconds,
                  calculate_latency(args.model_size, args.tokens, b,
                                    args.hardware_type, args.deployment_mode))
            /\ Eq(ret.cost_per_request_usd,
                  calculate_cost(args.model_size, args.tokens, b,
                                 args.hardware_type, args.deployment_mode))

\* C11 witness: a local result for batch size 4 with the latency and the cost,
\* above zero, of batch size 1.
C11_Witness ==
    /\ Returned
    /\ args.deployment_mode = "local" /\ args.batch_size = 4
    /\ Gt(ret.cost_per_request_usd, Zero)
    /\ Eq(ret.latency_seconds,
          calculate_latency(args.model_size, args.tokens, 1,
                            args.hardware_type, args.deployment_mode))
    /\ Eq(ret.cost_per_request_usd,
          calculate_cost(args.model_size, args.tokens, 1,
                         args.hardware_type, args.deployment_mode))

\* The seven rules of the contract: the string of each and when it holds for call
\* a with result r.
RuleString(i) ==
    CASE i = 1 -> "Hardware incompatible - consider GPU with more VRAM"
      [] i = 2 -> "CPU inference will be very slow for this model size"
      [] i = 3 -> "Long sequences may cause memory issues"
      [] i = 4 -> "GPT-4 costs can be high for long sequences"
      [] i = 5 -> "API deployment typically doesn't support batching"
      [] i = 6 -> "Large batch sizes may cause memory issues"
      [] i = 7 -> "Consider chunking long sequences"

RuleHolds(i, a, r) ==
    CASE i = 1 -> a.deployment_mode = "local" /\ ~r.hardware_compatible
      [] i = 2 -> a.deployment_mode = "local" /\ a.hardware_type = "CPU"
                  /\ a.model_size # "7B"
      [] i = 3 -> a.deployment_mode = "local" /\ a.tokens > 2048
      [] i = 4 -> a.deployment_mode = "api" /\ a.model_size = "GPT-4" /\ a.tokens > 1000
      [] i = 5 -> a.deployment_mode = "api" /\ a.batch_size > 1
      [] i = 6 -> a.batch_size > 4
      [] i = 7 -> a.tokens > 4096

\* The strings of the rules i .. 7 that hold, in rule order.
RECURSIVE RulesFrom(_, _, _)
RulesFrom(i, a, r) ==
    IF i > 7 THEN <<>>
    ELSE (IF RuleHolds(i, a, r) THEN <<RuleString(i)>> ELSE <<>>) \o RulesFrom(i + 1, a, r)

\* C12: the recommendations of a result are exactly the strings of the rules
\* that hold, in rule order 1..7; no result holds a string of rules 1-3 together
\* with one of rules 4-5; every result for more than 4096 tokens contains
\* "Consider chunking long sequences".
C12_RecommendationsAreTheRules ==
    Returned =>
        /\ ret.recommendations = RulesFrom(1, args, ret)
        /\ ~\E i \in 1 .. 3, j \in 4 .. 5 :
               /\ Contains(ret.recommendations, RuleString(i))
               /\ Contains(ret.recommendations, RuleString(j))
        /\ args.tokens > 4096 => Contains(ret.recommendations, RuleString(7))

\* C12 witness: a local result for 5000 tokens in a batch of 5 on a GPU, holding
\* the strings of rules 1, 3, 6 and 7 in that order.
C12_Witness ==
    /\ Returned
    /\ args.tokens = 5000 /\ args.batch_size = 5 /\ args.deployment_mode = "local"
    /\ ret.recommendations = <<RuleString(1), RuleString(3), RuleString(6), RuleString(7)>>

\* The weights term of the memory usage, in GB.
WeightsGb(model_size) == Div(Mul(model_specs[model_size].parameters, I(2)), GiB)

\* The activation term of the memory usage, in GB: on the raw token count.
ActivationGb(model_size, tokens) ==
    Mul(Div(Mul(Mul(I(tokens), model_specs[model_size].parameters), I(2)), GiB), Q(1, 10))

\* The KV-cache term of one request filling the model's context window, in GB.
KvCacheGbAtContext(model_size) ==
    LET specs == model_specs[model_size]
    IN  Div(Prod(<<I(2), specs.layers, specs.heads, specs.head_dim,
                   specs.context_length, I(2)>>), GiB)

AboveContext(model_size, tokens) == Gt(I(tokens), model_specs[model_size].context_length)

\* C13: the memory usage of a result is (weights + KV cache + activations) x 1.2,
\* the KV cache on min(tokens, context length) and the activations on the raw
\* tokens; for tokens above the context length the KV term is its value at the
\* context length, and the memory usage is strictly above that of one token less.
C13_MemoryFormulaAndContextClamp ==
    Returned =>
        /\ Eq(ret.memory_usage_gb,
              Mul(Add(Add(WeightsGb(args.model_size),
                          Mul(KvCacheGbPerRequest(args.model_size, args.tokens),
                              I(args.batch_size))),
                      ActivationGb(args.model_size, args.tokens)),
                  Q(12, 10)))
        /\ AboveContext(args.model_size, args.tokens) =>
               Eq(KvCacheGbPerRequest(args.model_size, args.tokens),
                  KvCacheGbAtContext(args.model_size))
        /\ args.tokens > 1 =>
               Gt(ret.memory_usage_gb,
                  calculate_memory_usage(args.model_size, args.tokens - 1,
                                         args.batch_size, args.hardware_type))

\* C13 witness: a result for model 13B with tokens one above its context length
\* of 4096, its KV term that of the context length and its memory usage above
\* that of one token less.
C13_Witness ==
    /\ Returned
    /\ args.model_size = "13B" /\ args.tokens = 4097 /\ args.batch_size = 2
    /\ AboveContext(args.model_size, args.tokens - 1) = FALSE
    /\ AboveContext(args.model_size, args.tokens)
    /\ Eq(KvCacheGbPerRequest(args.model_size, args.tokens),
          KvCacheGbAtContext(args.model_size))
    /\ Gt(ret.memory_usage_gb,
          calculate_memory_usage(args.model_size, args.tokens - 1,
                                 args.batch_size, args.hardware_type))

ReturnedFor(deployment_mode) == Returned /\ args.deployment_mode = deployment_mode

\* C14: the cost of an API result is tokens x (0.7 x input price + 0.3 x output
\* price) / 1000 with the model's prices per 1000 tokens: 0.00013 for 13B with
\* 500 tokens, 0.032 for GPT-4 with 2000 tokens.
C14_ApiCostFormula ==
    ReturnedFor("api") =>
        LET pricing == api_pricing[args.model_size]
        IN  /\ Eq(ret.cost_per_request_usd,
                  Div(Mul(I(args.tokens),
                          Add(Mul(Q(7, 10), pricing.input), Mul(Q(3, 10), pricing.output))),
                      I(1000)))
            /\ args.model_size = "13B" /\ args.tokens = 500 =>
                   Eq(ret.cost_per_request_usd, Q(13, 100000))
            /\ args.model_size = "GPT-4" /\ args.tokens = 2000 =>
                   Eq(ret.cost_per_request_usd, Q(32, 1000))

\* C14 witness: the API result for GPT-4 with 2000 tokens, costing 0.032.
C14_Witness ==
    /\ ReturnedFor("api")
    /\ args.model_size = "GPT-4" /\ args.tokens = 2000
    /\ Eq(ret.cost_per_request_usd, Q(32, 1000))

\* C15: the latency of an API result is 2.0 + tokens / 50 seconds whatever the
\* model and the hardware (12.0 for 500 tokens, 42.0 for 2000), above 2.0, and
\* above the API latency of one token less.
C15_ApiLatencyFormula ==
    ReturnedFor("api") =>
        /\ Eq(ret.latency_seconds, Add(I(2), Div(I(args.tokens), I(50))))
        /\ Gt(ret.latency_seconds, I(2))
        /\ args.tokens = 500 => Eq(ret.latency_seconds, I(12))
        /\ args.tokens = 2000 => Eq(ret.latency_seconds, I(42))
        /\ args.tokens > 1 =>
               Gt(ret.latency_seconds,
                  calculate_latency(args.model_size, args.tokens - 1, args.batch_size,
                                    args.hardware_type, args.deployment_mode))

\* C15 witness: an API result for 500 tokens on a model other than 13B and a
\* hardware other than the default, with latency 12.0.
C15_Witness ==
    /\ ReturnedFor("api")
    /\ args.tokens = 500 /\ args.model_size = "GPT-4" /\ args.hardware_type = "CPU"
    /\ Eq(ret.latency_seconds, I(12))

\* C16: the latency of a local result is tokens / baseline x 1.1 with the
\* baseline tokens per second of the model on the hardware: about 31.43 s
\* (1100 / 35) for 7B with 1000 tokens on GPU_16GB.
C16_LocalLatencyFormula ==
    ReturnedFor("local") =>
        LET baseline == performance_baselines[args.model_size][args.hardware_type]
        IN  /\ Eq(ret.latency_seconds, Mul(Div(I(args.tokens), baseline), Q(11, 10)))
            /\ (/\ args.model_size = "7B" /\ args.tokens = 1000
                /\ args.hardware_type = "GPU_16GB") =>
                   /\ Eq(ret.latency_seconds, Q(1100, 35))
                   /\ Gt(ret.latency_seconds, Q(31425, 1000))
                   /\ Lt(ret.latency_seconds, Q(31435, 1000))

\* C16 witness: the local result for 7B with 1000 tokens on GPU_16GB, with
\* latency 1100 / 35 seconds.
C16_Witness ==
    /\ ReturnedFor("local")
    /\ args.model_size = "7B" /\ args.tokens = 1000 /\ args.hardware_type = "GPU_16GB"
    /\ Eq(ret.latency_seconds, Q(1100, 35))

\* The hourly rate of a hardware class: purchase cost over 3 years of 8-hour
\* days plus electricity at 0.12 per kWh.
RatePerHour(hardware_type) ==
    LET hardware == hardware_specs[hardware_type]
    IN  Add(Div(hardware.cost_usd, I(3 * 365 * 8)),
            Mul(Div(hardware.power_watts, I(1000)), Q(12, 100)))

\* C17: the cost of a local result is ((hardware cost / (3 x 365 x 8)) +
\* (watts / 1000) x 0.12) / 3600 x the result's latency_seconds, so that cost and
\* latency are in the same proportion as for any other token count.
C17_LocalCostFormula ==
    ReturnedFor("local") =>
        /\ Eq(ret.cost_per_request_usd,
              Mul(Div(RatePerHour(args.hardware_type), I(3600)), ret.latency_seconds))
        /\ Eq(Mul(ret.cost_per_request_usd,
                  calculate_latency(args.model_size, 1, args.batch_size,
                                    args.hardware_type, args.deployment_mode)),
              Mul(calculate_cost(args.model_size, 1, args.batch_size,
                                 args.hardware_type, args.deployment_mode),
                  ret.latency_seconds))

\* C17 witness: a local result on a GPU with a purchase cost, its cost the
\* per-second rate of the hardware times its latency.
C17_Witness ==
    /\ ReturnedFor("local")
    /\ args.hardware_type = "GPU_24GB" /\ args.tokens = 2000
    /\ Gt(hardware_specs[args.hardware_type].cost_usd, Zero)
    /\ Gt(ret.latency_seconds, Zero)
    /\ Eq(ret.cost_per_request_usd,
          Mul(Div(RatePerHour(args.hardware_type), I(3600)), ret.latency_seconds))

Between(x, low, high) == Geq(x, low) /\ Leq(x, high)

\* C18: with 1000 tokens and batch size 1 the cost of a result lies between
\* 0.000001 and 0.001 for 7B local on GPU_16GB, between 0.0001 and 0.01 for 13B
\* in API mode, and between 0.01 and 1.0 for GPT-4 in API mode.
C18_CostsInExpectedRanges ==
    (Returned /\ args.tokens = 1000 /\ args.batch_size = 1) =>
        /\ (/\ args.model_size = "7B" /\ args.deployment_mode = "local"
            /\ args.hardware_type = "GPU_16GB") =>
               Between(ret.cost_per_request_usd, Q(1, 1000000), Q(1, 1000))
        /\ (args.model_size = "13B" /\ args.deployment_mode = "api") =>
               Between(ret.cost_per_request_usd, Q(1, 10000), Q(1, 100))
        /\ (args.model_size = "GPT-4" /\ args.deployment_mode = "api") =>
               Between(ret.cost_per_request_usd, Q(1, 100), I(1))

GpuNames == HardwareNames \ {"CPU"}

C20_TablesAsConstructed ==
    /\ model_specs = InitModelSpecs
    /\ hardware_specs = InitHardwareSpecs
    /\ api_pricing = InitApiPricing
    /\ performance_baselines = InitPerformanceBaselines

\* C20 witness: a call has raised, after which the tables have the values of
\* construction.
C20_Witness ==
    /\ Raised
    /\ args.deployment_mode = "api" /\ args.tokens = 0
    /\ tables = <<InitModelSpecs, InitHardwareSpecs, InitApiPricing, InitPerformanceBaselines>>

\* C22: a call that passes only model and tokens returns or raises what the
\* call with batch size 1, hardware "GPU_8GB" and deployment "local" does; a call
\* that passes some of the three returns or raises what the call with these
\* values for the others does.
C22_OmittedArgumentsTakeDefaults ==
    op = "calculate_kw" =>
        /\ args.kwargs = <<>> =>
               ret = calculate(args.model_size, args.tokens, 1, "GPU_8GB", "local")
        /\ ret = calculate(args.model_size, args.tokens,
                           IF "batch_size" \in DOMAIN args.kwargs
                           THEN args.kwargs.batch_size ELSE 1,
                           IF "hardware_type" \in DOMAIN args.kwargs
                           THEN args.kwargs.hardware_type ELSE "GPU_8GB",
                           IF "deployment_mode" \in DOMAIN args.kwargs
                           THEN args.kwargs.deployment_mode ELSE "local")

\* C22 witness: calculate("7B", 1000) has returned the result of
\* calculate("7B", 1000, 1, "GPU_8GB", "local"), a local latency on GPU_8GB.
C22_Witness ==
    /\ op = "calculate_kw"
    /\ args.kwargs = <<>> /\ args.model_size = "7B" /\ args.tokens = 1000
    /\ ret.kind = "CalculationResult"
    /\ ret = calculate("7B", 1000, 1, "GPU_8GB", "local")
    /\ Eq(ret.latency_seconds,
          Mul(Div(I(1000), performance_baselines["7B"]["GPU_8GB"]), Q(11, 10)))

ArgumentOrder == <<"model_size", "hardware_type", "deployment_mode", "tokens", "batch_size">>

\* The first argument of call a, in that order, that is invalid.
FirstInvalid(a) ==
    LET i == CHOOSE i \in 1 .. Len(ArgumentOrder) :
                 /\ ArgumentOrder[i] \in InvalidArguments(a)
                 /\ \A j \in 1 .. (i - 1) : ArgumentOrder[j] \notin InvalidArguments(a)
    IN  ArgumentOrder[i]

\* C25: a call with invalid arguments raises the ValueError of the first invalid
\* one in the order model, hardware, deployment, tokens, batch size.
C25_FirstInvalidArgumentReported ==
    (op = "calculate" /\ InvalidArguments(args) # {}) =>
        /\ ret.kind = "ValueError"
        /\ Identified(ret.message).argument = FirstInvalid(args)

\* C25 witness: hardware, tokens and batch size are all invalid and the error
\* names the hardware.
C25_Witness ==
    /\ op = "calculate"
    /\ InvalidArguments(args) = {"hardware_type", "tokens", "batch_size"}
    /\ ret.kind = "ValueError"
    /\ Identified(ret.message).argument = "hardware_type"

\* C26: a local result holds the incompatibility string exactly when its flag is
\* false; an API result never holds it.
C26_IncompatibleStringInLocalOnly ==
    /\ ReturnedFor("local") =>
           (Contains(ret.recommendations, Incompatible) <=> ~ret.hardware_compatible)
    /\ ReturnedFor("api") => ~Contains(ret.recommendations, Incompatible)

\* C26 witness: an API result whose flag is false and which does not hold the
\* incompatibility string.
C26_Witness ==
    /\ ReturnedFor("api")
    /\ ~ret.hardware_compatible
    /\ ~Contains(ret.recommendations, Incompatible)

NoDuplicates(s) == \A i, j \in 1 .. Len(s) : s[i] = s[j] => i = j

\* C27: the recommendations of a result hold no string twice and at most 4
\* strings, and never both the incompatibility string and the slow-CPU string.
C27_AtMostFourDistinctStrings ==
    Returned =>
        /\ NoDuplicates(ret.recommendations)
        /\ Len(ret.recommendations) <= 4
        /\ ~(/\ Contains(ret.recommendations, Incompatible)
             /\ Contains(ret.recommendations,
                         "CPU inference will be very slow for this model size"))

\* C27 witness: a local CPU result with 4 strings, the slow-CPU string among them
\* and the incompatibility string not.
C27_Witness ==
    /\ Returned
    /\ args.hardware_type = "CPU"
    /\ Len(ret.recommendations) = 4
    /\ NoDuplicates(ret.recommendations)
    /\ Contains(ret.recommendations, "CPU inference will be very slow for this model size")
    /\ ~Contains(ret.recommendations, Incompatible)

\* quick_calculation waits for the answer to "Use saved configuration? (y/n)".
OfferPrompt == <<"run", "quick_calculation", "input">>

\* Positions of the front end outside configure_settings, with the loop running.
OutsideConfigure == pc \in {<<"run">>, OfferPrompt, PerformPoint, PressEnterPrompt}

FieldsSet(config) == {f \in DOMAIN config : config[f] # NotSet}

\* C28: quick_calculation offers the saved configuration only when all five
\* fields are set; once configure_settings has returned, the hardware is None
\* exactly when the deployment mode is API; so the configuration offered is
\* never one of API deployment.
C28_ReuseOfferedOnlyForCompleteConfiguration ==
    /\ pc = OfferPrompt =>
           /\ FieldsSet(current_config) = DOMAIN current_config
           /\ current_config.deployment_mode # Value("api")
    /\ (OutsideConfigure /\ current_config.deployment_mode # NotSet) =>
           (current_config.hardware_type = NotSet
                <=> current_config.deployment_mode = Value("api"))

\* C28 witness: option 1 with a saved configuration of API deployment, hardware
\* None: no offer, quick_calculation is at the first prompt of configure_settings.
C28_Witness ==
    /\ pc = <<"run", "quick_calculation", "configure_settings", "get_model_size">>
    /\ current_config.deployment_mode = Value("api")
    /\ current_config.hardware_type = NotSet
    /\ FieldsSet(current_config) = DOMAIN current_config \ {"hardware_type"}

\* C29: when perform_calculation is reached the configuration holds a model, a
\* positive token count, a positive batch size and a deployment mode; the call it
\* makes passes the configured hardware, or "GPU_8GB" when none is set, and
\* returns a result.
C29_PerformCalculationNeverRaises ==
    /\ pc = PerformPoint =>
           /\ current_config.model_size # NotSet /\ current_config.model_size[1] \in ModelNames
           /\ current_config.tokens # NotSet /\ current_config.tokens[1] > 0
           /\ current_config.batch_size # NotSet /\ current_config.batch_size[1] > 0
           /\ current_config.deployment_mode # NotSet
           /\ current_config.deployment_mode[1] \in DeploymentNames
    /\ (pc = PressEnterPrompt /\ called = "quick_calculation") =>
           /\ ret.kind = "CalculationResult"
           /\ args.hardware_type =
                  IF current_config.hardware_type = NotSet THEN "GPU_8GB"
                  ELSE current_config.hardware_type[1]
           /\ args.model_size = current_config.model_size[1]
           /\ args.tokens = current_config.tokens[1]
           /\ args.batch_size = current_config.batch_size[1]
           /\ args.deployment_mode = current_config.deployment_mode[1]

\* C29 witness: perform_calculation has run on a configuration of API deployment
\* without hardware; the call passed "GPU_8GB" and returned a result.
C29_Witness ==
    /\ pc = PressEnterPrompt /\ called = "quick_calculation"
    /\ current_config.hardware_type = NotSet
    /\ args.hardware_type = "GPU_8GB" /\ args.deployment_mode = "api"
    /\ ret.kind = "CalculationResult"

\* The method run calls for each of the options 1 to 5.
MethodOf == <<"quick_calculation", "configure_settings", "compare_scenarios", "show_recommendations", "show_help">>

LoopEnded == pc[1] # "run"

\* What the loop does with the options: the choice is 1..6 (0: none made yet);
\* inside a method and at "Press Enter" the choice is one of 1..5 and the method
\* run is that of the choice; option 6 runs none.
OptionsRunTheirMethod ==
    /\ choice \in 0 .. 6
    /\ (pc[1] = "run" /\ pc # <<"run">>) =>
           choice \in 1 .. 5 /\ called = MethodOf[choice]
    /\ pc = <<"run">> => called = "none"
    /\ pc = <<"returned">> => choice = 6 /\ called = "none"

\* C30 as stated: the loop has ended only if the choice is option 6.
C30_LoopEndsOnlyOnOptionSix ==
    /\ OptionsRunTheirMethod
    /\ LoopEnded => choice = 6

\* C30: the loop has ended only if the choice is option 6 or input() raised
\* KeyboardInterrupt or EOFError at a prompt; the options are chosen within 1..6,
\* options 1 to 5 run their method, option 6 runs none.
C30_LoopEndsOnOptionSixOrInterrupt ==
    /\ OptionsRunTheirMethod
    /\ LoopEnded => (pc = <<"returned">> /\ choice = 6) \/ pc = <<"interrupted">>

\* C30 witness: option 6 has ended the loop after an earlier option ran its
\* method and the menu was shown again.
C30_Witness ==
    /\ pc = <<"returned">> /\ choice = 6 /\ called = "none"
    /\ current_config.model_size # NotSet

\* The statements of calculate in the order of the contract.
ContractOrder ==
    <<"validate", "calculate_memory_usage", "calculate_latency", "calculate_cost",
      "check_hardware_compatibility", "generate_recommendations", "return">>

IsPrefix(s, t) == Len(s) <= Len(t) /\ s = SubSeq(t, 1, Len(s))

\* What a frame's call has returned, its list given by contents.
ResultValue(frame) == [frame.result EXCEPT !.recommendations = heap[@]]

\* The call of a frame run alone.
Alone(frame) ==
    calculate(frame.call.model_size, frame.call.tokens, frame.call.batch_size,
              frame.call.hardware_type, frame.call.deployment_mode)

\* C21: whatever the other threads do and have done, a call that has returned
\* holds the result of the same call run alone, a call that has raised holds the
\* same error, and no two frames refer to the same recommendation list.
C21_ConcurrentCallsIndependent ==
    /\ \A t \in Threads :
           /\ frames[t].pc = "returned" => ResultValue(frames[t]) = Alone(frames[t])
           /\ frames[t].pc = "raised" => frames[t].result = Alone(frames[t])
    /\ \A t, u \in Threads :
           (/\ t # u
            /\ "recommendations" \in DOMAIN frames[t].locals
            /\ "recommendations" \in DOMAIN frames[u].locals)
               => frames[t].locals.recommendations # frames[u].locals.recommendations

\* C21 witness: two threads hold the results of different calls at the same
\* time, each with its own non-empty list.
C21_Witness ==
    /\ frames["t1"].pc = "returned" /\ frames["t2"].pc = "returned"
    /\ frames["t1"].call # frames["t2"].call
    /\ frames["t1"].result.recommendations # frames["t2"].result.recommendations
    /\ ResultValue(frames["t1"]).recommendations # <<>>
    /\ ResultValue(frames["t2"]).recommendations # <<>>
    /\ ResultValue(frames["t1"]) = Alone(frames["t1"])

\* C23: the statements a call has run are an initial part of validate, memory,
\* latency, cost, compatibility, recommendations, return; a result exists only
\* once all of them have run; a call whose validation failed has run validate
\* only, read no table, assigned no local and holds a ValueError.
C23_StepsInOrderValidationFirst ==
    \A t \in Threads :
        /\ IsPrefix(frames[t].trace, ContractOrder)
        /\ frames[t].result.kind = "CalculationResult"
               <=> (frames[t].pc = "returned" /\ frames[t].trace = ContractOrder)
        /\ frames[t].pc = "raised" =>
               /\ frames[t].trace = <<"validate">>
               /\ frames[t].reads = {}
               /\ DOMAIN frames[t].locals = {}
               /\ frames[t].result.kind = "ValueError"
        /\ frames[t].pc \notin {"returned", "raised"} => frames[t].result = None
        /\ frames[t].reads # {} => Len(frames[t].trace) > 1

\* C23 witness: one call has failed validation after validate alone while
\* another has run all the statements and returned.
C23_Witness ==
    /\ frames["t1"].pc = "raised" /\ frames["t1"].trace = <<"validate">>
    /\ frames["t1"].reads = {}
    /\ frames["t2"].pc = "returned" /\ frames["t2"].trace = ContractOrder
    /\ frames["t2"].reads # {}

=============================================================================
